---- MODULE Spec2Model ----
(***************************************************************************)
(* Model of the metadata enrichment pipeline of                            *)
(* src/commands/metadata_enricher.py: MetadataEnricher.enrich drives each  *)
(* paper block through DOI resolution, page extraction, the search         *)
(* fallback, the review decision and the construction of the enriched      *)
(* block.  Python strings are TLA+ strings; the absent value None is the   *)
(* sentinel None.                                                          *)
(***************************************************************************)
EXTENDS Integers, Sequences, FiniteSets, TLC

(***************************************************************************)
(* Python string primitives used by the source.                            *)
(***************************************************************************)
None == "<None>"

NL == "\n"

CharAt(s, k) == SubSeq(s, k, k)

IsSpace(c) == c \in {" ", "\n", "\t", "\r"}

UpperAlpha == "ABCDEFGHIJKLMNOPQRSTUVWXYZ"

LowerAlpha == "abcdefghijklmnopqrstuvwxyz"

\* index of the one-character string c in the alphabet, 0 if absent
AlphaIndex(alpha, c) ==
    LET hits == {k \in 1..Len(alpha) : SubSeq(alpha, k, k) = c}
    IN  IF hits = {} THEN 0 ELSE CHOOSE k \in hits : TRUE

IsUpper(c) == AlphaIndex(UpperAlpha, c) > 0

IsLower(c) == AlphaIndex(LowerAlpha, c) > 0

LowerOf(c) ==
    LET k == AlphaIndex(UpperAlpha, c)
    IN  IF k = 0 THEN c ELSE SubSeq(LowerAlpha, k, k)

\* str.lower(), by halves
RECURSIVE Lower(_)
Lower(s) ==
    IF Len(s) = 0 THEN ""
    ELSE IF Len(s) = 1 THEN LowerOf(s)
    ELSE LET h == Len(s) \div 2
         IN  Lower(SubSeq(s, 1, h)) \o Lower(SubSeq(s, h + 1, Len(s)))

\* s.startswith(p)
StartsWith(s, p) == Len(s) >= Len(p) /\ SubSeq(s, 1, Len(p)) = p

\* p in s
Contains(s, p) ==
    \E k \in 1..(Len(s) - Len(p) + 1) : SubSeq(s, k, k + Len(p) - 1) = p

\* s[:n]
Prefix(s, n) == IF Len(s) <= n THEN s ELSE SubSeq(s, 1, n)

\* str.strip()
Strip(s) ==
    LET idx == {k \in 1..Len(s) : ~IsSpace(CharAt(s, k))}
    IN  IF idx = {} THEN ""
        ELSE SubSeq(s, CHOOSE a \in idx : \A b \in idx : a <= b,
                       CHOOSE a \in idx : \A b \in idx : b <= a)

\* position of the first occurrence of sep in s at or after index from, 0 if none
FindFrom(s, sep, from) ==
    LET hits == {k \in from..(Len(s) - Len(sep) + 1) :
                    SubSeq(s, k, k + Len(sep) - 1) = sep}
    IN  IF hits = {} THEN 0 ELSE CHOOSE a \in hits : \A b \in hits : a <= b

\* s.split(sep): left-to-right, non-overlapping, empty pieces kept
RECURSIVE Split(_, _)
Split(s, sep) ==
    LET k == FindFrom(s, sep, 1)
    IN  IF k = 0 THEN <<s>>
        ELSE <<SubSeq(s, 1, k - 1)>> \o Split(SubSeq(s, k + Len(sep), Len(s)), sep)

\* sep.join(parts)
RECURSIVE Join(_, _)
Join(parts, sep) ==
    IF parts = <<>> THEN ""
    ELSE IF Len(parts) = 1 THEN parts[1]
    ELSE parts[1] \o sep \o Join(Tail(parts), sep)

\* s.split(): the set of maximal whitespace-free substrings
Words(s) ==
    LET starts == {a \in 1..Len(s) :
                      /\ ~IsSpace(CharAt(s, a))
                      /\ (a = 1 \/ IsSpace(CharAt(s, a - 1)))}
        EndOf(a) == CHOOSE b \in a..Len(s) :
                      /\ (b = Len(s) \/ IsSpace(CharAt(s, b + 1)))
                      /\ \A c \in a..b : ~IsSpace(CharAt(s, c))
    IN  {SubSeq(s, a, EndOf(a)) : a \in starts}

\* re.sub(r'\s+', ' ', s): positions a..b of s, each whitespace run becoming one space
RECURSIVE CollapseRange(_, _, _)
CollapseRange(s, a, b) ==
    IF a > b THEN ""
    ELSE IF a = b
         THEN IF ~IsSpace(CharAt(s, a)) THEN CharAt(s, a)
              ELSE IF a > 1 /\ IsSpace(CharAt(s, a - 1)) THEN "" ELSE " "
    ELSE LET h == (a + b) \div 2
         IN  CollapseRange(s, a, h) \o CollapseRange(s, h + 1, b)

CollapseSpace(s) == CollapseRange(s, 1, Len(s))

\* str(n) for a natural number
RECURSIVE ToStr(_)
ToStr(n) ==
    IF n < 10 THEN SubSeq("0123456789", n + 1, n + 1)
    ELSE ToStr(n \div 10) \o SubSeq("0123456789", (n % 10) + 1, (n % 10) + 1)

\* str(v) as an f-string renders it
Str(v) == IF v = None THEN "None" ELSE v

\* truthiness of an optional string
Truthy(v) == v /= None /\ v /= ""

Min(a, b) == IF a < b THEN a ELSE b

Max(a, b) == IF a < b THEN b ELSE a

(***************************************************************************)
(* DOIResolver.resolve.  net is the outcome of requests.get: a response    *)
(* record [kind |-> "response", status, url] or [kind |-> "exception"].    *)
(* Returns <<resolved_url, status_message>>.                               *)
(***************************************************************************)
\* resolve without the test for an ISBN-tagged identifier
resolve_isbn_unchecked(doi, net) ==
    IF ~Truthy(doi) \/ doi = "Not available"
    THEN <<None, "No valid DOI">>
    ELSE IF net.kind = "response"
         THEN IF net.status = 200
              THEN <<net.url, "DOI resolved successfully">>
              ELSE <<None, "DOI resolution failed: HTTP " \o ToStr(net.status)>>
         ELSE <<None, "DOI resolution error: " \o net.msg>>

resolve(doi, net) ==
    IF ~Truthy(doi) \/ doi = "Not available" \/ Contains(doi, "ISBN")
    THEN <<None, "No valid DOI">>
    ELSE IF net.kind = "response"
         THEN IF net.status = 200
              THEN <<net.url, "DOI resolved successfully">>
              ELSE <<None, "DOI resolution failed: HTTP " \o ToStr(net.status)>>
         ELSE <<None, "DOI resolution error: " \o net.msg>>

\* the network requests resolve issues for doi
resolve_requests(doi) ==
    IF ~Truthy(doi) \/ doi = "Not available" \/ Contains(doi, "ISBN") THEN 0 ELSE 1

(***************************************************************************)
(* GoogleSearcher.search.  net is the outcome of the API request: a JSON   *)
(* body [kind |-> "json", items] whose items carry None for a missing key, *)
(* or a transport/HTTP error.                                              *)
(***************************************************************************)
\* search that leaves out the items without a title
search_titled_only(query, num_results, net) ==
    IF net.kind = "json"
    THEN SelectSeq([k \in 1..Len(net.items) |->
                      [title |-> net.items[k].title,
                       link |-> net.items[k].link,
                       snippet |-> net.items[k].snippet]],
                   LAMBDA it : it.title /= None)
    ELSE <<>>

search(query, num_results, net) ==
    IF net.kind = "json"
    THEN [k \in 1..Len(net.items) |->
            [title |-> net.items[k].title,
             link |-> net.items[k].link,
             snippet |-> net.items[k].snippet]]
    ELSE <<>>

(***************************************************************************)
(* MetadataExtractor.  A page is [fetch, author_els, abstract_els]: fetch  *)
(* tells whether the request and the parse succeed, and the two sequences  *)
(* hold the text of the element each selector matches, in selector         *)
(* priority order (selectors that match nothing are left out).  Each       *)
(* element holds one text node, so get_text(strip=True) strips its two     *)
(* ends and keeps the whitespace inside it.                                *)
(***************************************************************************)
AuthorKeywords == {"author", "by ", "et al"}

RECURSIVE _extract_authors(_)
_extract_authors(els) ==
    IF els = <<>> THEN ""
    ELSE LET text == Strip(Head(els))
         IN  IF \E kw \in AuthorKeywords : Contains(Lower(text), kw)
             THEN CollapseSpace(text)
             ELSE _extract_authors(Tail(els))

AbstractMinLen == 100

AbstractMaxLen == 500

\* the extraction accepting a text of exactly 100 characters
RECURSIVE _extract_abstract_inclusive(_)
_extract_abstract_inclusive(els) ==
    IF els = <<>> THEN ""
    ELSE LET text == Strip(Head(els))
         IN  IF Len(text) >= AbstractMinLen
             THEN IF Len(text) > AbstractMaxLen
                  THEN SubSeq(text, 1, AbstractMaxLen) \o "..."
                  ELSE text
             ELSE _extract_abstract_inclusive(Tail(els))

RECURSIVE _extract_abstract(_)
_extract_abstract(els) ==
    IF els = <<>> THEN ""
    ELSE LET text == Strip(Head(els))
         IN  IF Len(text) > AbstractMinLen
             THEN IF Len(text) > AbstractMaxLen
                  THEN SubSeq(text, 1, AbstractMaxLen) \o "..."
                  ELSE text
             ELSE _extract_abstract(Tail(els))

RECURSIVE Rep(_, _)
Rep(s, n) == IF n = 0 THEN "" ELSE s \o Rep(s, n - 1)

Filler == Rep("lorem ipsu", 5)

PageDown == [fetch |-> "error", author_els |-> <<>>, abstract_els |-> <<>>]

PageBare == [fetch |-> "ok", author_els |-> <<>>, abstract_els |-> <<"Abstract not shown">>]

PageAuthors ==
    [fetch |-> "ok", author_els |-> <<"Editors", " By Ann Lee\nand Bob Graph ">>,
     abstract_els |-> <<>>]

PageAbstract ==
    [fetch |-> "ok", author_els |-> <<>>,
     abstract_els |-> <<"too short", "This graph study " \o Filler \o Filler>>]

PageBoth ==
    [fetch |-> "ok", author_els |-> <<"By Staff Writers">>,
     abstract_els |-> <<Filler \o " first paragraph\n\n" \o Filler \o " second">>]

Pages == {PageDown, PageBare, PageAuthors, PageAbstract, PageBoth}

\* pages whose abstract elements have texts of 100, 101, 500, 501 and 650
\* characters once stripped, and a page answered with an error status
Text100 == Rep(Filler, 2)

Text500 == Rep(Filler, 10)

Page100 == [fetch |-> "ok", author_els |-> <<>>, abstract_els |-> <<Text100>>]

Page101 ==
    [fetch |-> "ok", author_els |-> <<>>,
     abstract_els |-> <<" " \o Text100 \o "\n", Text100 \o "x", Text500>>]

Page500 == [fetch |-> "ok", author_els |-> <<>>, abstract_els |-> <<Text500>>]

Page501 == [fetch |-> "ok", author_els |-> <<>>, abstract_els |-> <<Text500 \o "x">>]

Page650 ==
    [fetch |-> "ok", author_els |-> <<"By Ann Lee">>,
     abstract_els |-> <<"short", "\n" \o Text500 \o Rep(Filler, 3) \o " ", Text100 \o "y">>]

PageForbidden ==
    [fetch |-> "error", author_els |-> <<"By Ann Lee">>, abstract_els |-> <<Text500>>]

BoundaryPages == {Page100, Page101, Page500, Page501, Page650, PageForbidden}

\* what the two extraction passes find in each page that was fetched and parsed
PageText ==
    [p \in Pages \cup BoundaryPages |->
        <<_extract_abstract(p.abstract_els), _extract_authors(p.author_els)>>]

\* returns <<abstract, authors>>; a failing request or parse gives two empty strings
extract_from_url(url, page) ==
    IF url = None \/ page.fetch /= "ok"
    THEN <<"", "">>
    ELSE PageText[page]

(***************************************************************************)
(* ConfidenceCalculator.calculate                                          *)
(***************************************************************************)
BaseDoiDirect == 90

BaseGoogleSearch == 60

BaseFallback == 30

\* the table read without a default for an unlisted method
base_scores_strict(source_method) ==
    CASE source_method = "doi_direct" -> BaseDoiDirect
      [] source_method = "google_search" -> BaseGoogleSearch
      [] source_method = "fallback" -> BaseFallback
      [] OTHER -> 0

base_scores(source_method) ==
    CASE source_method = "doi_direct" -> BaseDoiDirect
      [] source_method = "google_search" -> BaseGoogleSearch
      [] source_method = "fallback" -> BaseFallback
      [] OTHER -> BaseFallback

FlagBonus == 10

\* the score without the final min/max
calculate_unclamped(data_type, source_method, validation_results) ==
    base_scores(source_method)
    + (IF validation_results.format_valid THEN FlagBonus ELSE 0)
    + (IF validation_results.content_relevant THEN FlagBonus ELSE 0)
    + (IF validation_results.source_reliable THEN FlagBonus ELSE 0)

calculate(data_type, source_method, validation_results) ==
    LET score == base_scores(source_method)
                 + (IF validation_results.format_valid THEN FlagBonus ELSE 0)
                 + (IF validation_results.content_relevant THEN FlagBonus ELSE 0)
                 + (IF validation_results.source_reliable THEN FlagBonus ELSE 0)
    IN  Min(100, Max(0, score))

(***************************************************************************)
(* DataValidator.validate                                                  *)
(***************************************************************************)
\* re.search(r'[A-Z][a-z]+.*[A-Z][a-z]+', data): two capitalised runs on one line
NamePairMatch(data) ==
    \E a \in 1..Len(data), b \in 1..Len(data) :
        /\ b >= a + 2
        /\ b + 1 <= Len(data)
        /\ IsUpper(CharAt(data, a)) /\ IsLower(CharAt(data, a + 1))
        /\ IsUpper(CharAt(data, b)) /\ IsLower(CharAt(data, b + 1))
        /\ \A c \in (a + 2)..(b - 1) : CharAt(data, c) /= NL

AbstractKeywords == {"study", "research", "analysis", "method"}

AbstractFormatLen == 50

\* validate with the source counted as reliable whenever there is data
validate_reliable(data, paper_title, data_type) ==
    IF ~Truthy(data)
    THEN [format_valid |-> FALSE, content_relevant |-> FALSE, source_reliable |-> FALSE]
    ELSE [format_valid |->
              IF data_type = "authors"
              THEN NamePairMatch(data) \/ Contains(data, "et al")
              ELSE IF data_type = "abstract"
              THEN /\ Len(data) > AbstractFormatLen
                   /\ \E w \in AbstractKeywords : Contains(Lower(data), w)
              ELSE FALSE,
          content_relevant |->
              /\ Truthy(paper_title)
              /\ Words(Lower(paper_title)) \cap Words(Lower(data)) /= {},
          source_reliable |-> TRUE]

validate(data, paper_title, data_type) ==
    IF ~Truthy(data)
    THEN [format_valid |-> FALSE, content_relevant |-> FALSE, source_reliable |-> FALSE]
    ELSE [format_valid |->
              IF data_type = "authors"
              THEN NamePairMatch(data) \/ Contains(data, "et al")
              ELSE IF data_type = "abstract"
              THEN /\ Len(data) > AbstractFormatLen
                   /\ \E w \in AbstractKeywords : Contains(Lower(data), w)
              ELSE FALSE,
          content_relevant |->
              /\ Truthy(paper_title)
              /\ Words(Lower(paper_title)) \cap Words(Lower(data)) /= {},
          source_reliable |-> FALSE]


(***************************************************************************)
(* Inputs: the documents read by enrich() and the outcomes of the network. *)
(***************************************************************************)
BlockDoi == "DOI: 10.1/xyz\nTitle: Graph Study"

BlockNoDoi == "Title: Graph Study\nYear: 2020"

BlockIsbn == "Title: Graph Study\nDOI: ISBN 978-1"

BlockNotAvailable == "DOI: Not available\nTitle: Graph Study"

BlockNoTitle == "DOI: 10.1/xyz\nYear: 2020"

BlockEmptyTitle == "Title: \nYear: 2020"

Docs ==
    {BlockDoi, BlockNoDoi, BlockIsbn, BlockNotAvailable, BlockNoTitle,
     BlockEmptyTitle \o "\n",
     BlockNoTitle \o "\n\n\n" \o BlockNoDoi \o "\n",
     BlockNoDoi \o "\n\n" \o BlockEmptyTitle \o "\n\n\n\n" \o BlockIsbn,
     "\n\n" \o BlockDoi \o "\n\n" \o BlockNoTitle \o "\n"}

ResolverOutcomes ==
    {[kind |-> "response", status |-> 200, url |-> "https://pub.example/xyz", msg |-> ""],
     [kind |-> "response", status |-> 404, url |-> "https://doi.org/10.1/xyz", msg |-> ""],
     [kind |-> "exception", status |-> 0, url |-> "", msg |-> "timed out"]}

ItemA == [title |-> "Graph Study - Publisher", link |-> "https://a.example/p", snippet |-> "s"]

ItemB == [title |-> "Graph Study (preprint)", link |-> "https://b.example/p", snippet |-> "s"]

ItemNoTitle == [title |-> None, link |-> "https://c.example/p", snippet |-> None]

ItemNoLink == [title |-> "Graph Study", link |-> None, snippet |-> "s"]

Items == {ItemA, ItemB, ItemNoTitle, ItemNoLink}

MaxItems == 3

\* the API ranks distinct pages: no item occurs twice in one response
ItemLists ==
    {it \in UNION {[1..n -> Items] : n \in 0..MaxItems} :
        \A a, b \in DOMAIN it : a /= b => it[a] /= it[b]}

SearchOutcomes ==
    {[kind |-> "error", items |-> <<>>]}
    \cup {[kind |-> "json", items |-> it] : it \in ItemLists}

(***************************************************************************)
(* State of one MetadataEnricher and of the enrich() call in progress.     *)
(***************************************************************************)
VARIABLES
    content,          \* text of the input file
    pc,               \* position of the control flow in enrich / _process_paper_block
    results_log,      \* self.results_log
    blocks,           \* blocks (enrich)
    enriched_blocks,  \* enriched_blocks (enrich)
    i,                \* loop index of the batch loop, 0-based
    block_ret,        \* value returned by _process_paper_block
    doi,              \* local doi
    title,            \* local title
    result,           \* local result
    search_results,   \* local search_results
    cand,             \* index i of the candidate loop, 0-based
    calls,            \* collaborator calls made for the current paper, in order
    log_mark,         \* length of results_log when the current paper began
    sleeps,           \* number of time.sleep(delay) calls made
    raised,           \* exception propagating out of enrich, "" if none
    output,           \* text written to the output file, None before the write
    log_file,         \* text of the sidecar log file, None while it does not exist
    stats,            \* what _analyze_results computed, if it ran
    events,           \* how many papers went through each stage event so far
    fn_args,          \* arguments of a component function applied on its own
    fn_ret            \* what that application returned

vars == <<content, pc, results_log, blocks, enriched_blocks, i, block_ret, doi,
          title, result, search_results, cand, calls, log_mark, sleeps, raised,
          output, log_file, stats, events, fn_args, fn_ret>>

fnVars == <<fn_args, fn_ret>>

fileVars == <<log_file, stats>>

paperVars == <<block_ret, doi, title, result, search_results, cand, calls>>

\* result as initialised at the start of a paper
NewResult ==
    [authors |-> "", abstract |-> "", webpage |-> "",
     author_confidence |-> 0, abstract_confidence |-> 0, webpage_confidence |-> 0,
     source_method |-> "", needs_review |-> FALSE, errors |-> <<>>]

\* MetadataEnricher._log_result: the entry appended to results_log
LogEntry(message) == "[HH:MM:SS] " \o message

_log_result(log, message) == Append(log, LogEntry(message))

RECURSIVE LogAll(_, _)
LogAll(log, messages) ==
    IF messages = <<>> THEN log
    ELSE LogAll(_log_result(log, Head(messages)), Tail(messages))

\* nothing analysed yet
NoStats == [ran |-> FALSE]

NoEvents ==
    [doi_attempts |-> 0, doi_successes |-> 0, doi_failures |-> 0,
     fallback_attempts |-> 0, fallback_successes |-> 0, no_results |-> 0,
     needs_review |-> 0]

\* no component function is being applied on its own
NoArgs == [fn |-> "none"]

NoRet == [done |-> FALSE]

\* a MetadataEnricher just constructed, and the input file (None: it does not exist)
Init ==
    /\ content \in Docs \cup {None}
    /\ pc = "idle"
    /\ results_log = <<>>
    /\ blocks = <<>>
    /\ enriched_blocks = <<>>
    /\ i = 0
    /\ block_ret = None
    /\ doi = None
    /\ title = None
    /\ result = NewResult
    /\ search_results = <<>>
    /\ cand = 0
    /\ calls = <<>>
    /\ log_mark = 0
    /\ sleeps = 0
    /\ raised = ""
    /\ output = None
    /\ log_file = None
    /\ stats = NoStats
    /\ events = NoEvents
    /\ fn_args = NoArgs
    /\ fn_ret = NoRet

\* [block for block in content.split('\n\n') if block.strip()]
RECURSIVE NonBlank(_)
NonBlank(parts) ==
    IF parts = <<>> THEN <<>>
    ELSE IF Strip(Head(parts)) /= "" THEN <<Head(parts)>> \o NonBlank(Tail(parts))
         ELSE NonBlank(Tail(parts))

SplitBlocks(text) == NonBlank(Split(text, "\n\n"))

OutputPath == "out/enriched.txt"

\* output_path.parent / f"{output_path.stem}_results.txt"
LogPath == "out/enriched_results.txt"

\* self.results_log once enrich has reset it and logged its first entry
StartedLog ==
    _log_result(<<"PROCESSING STARTED: <now>", Rep("=", 80), "">>,
                "Starting to enrich references with DOI-first approach...")

\* enrich: check and read the input, start the log, split into paper blocks
EnrichBegin ==
    /\ pc = "idle"
    /\ IF content = None
       THEN \* input_path.exists() is false
            /\ raised' = "FileNotFoundError"
            /\ pc' = "raised"
            /\ UNCHANGED <<results_log, blocks>>
       ELSE \E readable \in BOOLEAN :
              IF readable
              THEN /\ blocks' = SplitBlocks(content)
                   /\ results_log' = _log_result(StartedLog,
                          "Found " \o ToStr(Len(SplitBlocks(content))) \o " papers to process")
                   /\ raised' = raised
                   /\ pc' = "loop"
              ELSE /\ results_log' = StartedLog
                   /\ raised' = "IOError"
                   /\ pc' = "raised"
                   /\ blocks' = blocks
    /\ enriched_blocks' = <<>>
    /\ i' = 0
    /\ UNCHANGED <<content, paperVars, log_mark, sleeps, output, fileVars, events, fnVars>>

\* enrich: head of the batch loop, logging the paper marker
LoopHead ==
    /\ pc = "loop"
    /\ i < Len(blocks)
    /\ log_mark' = Len(results_log)
    /\ results_log' = _log_result(results_log,
          "\n[" \o ToStr(i + 1) \o "/" \o ToStr(Len(blocks)) \o "] " \o Rep("=", 50))
    /\ pc' = "start"
    /\ UNCHANGED <<content, blocks, enriched_blocks, i, paperVars, sleeps, raised, output>>
    /\ UNCHANGED <<fileVars, events, fnVars>>

\* the for loop over the lines that picks up doi and title
RECURSIVE ParseLines(_, _, _)
ParseLines(lines, d, t) ==
    IF lines = <<>> THEN <<d, t>>
    ELSE LET line == Head(lines)
         IN  IF StartsWith(line, "DOI:")
             THEN ParseLines(Tail(lines), Strip(SubSeq(line, 5, Len(line))), t)
             ELSE IF StartsWith(line, "Title:")
             THEN ParseLines(Tail(lines), d, Strip(SubSeq(line, 7, Len(line))))
             ELSE ParseLines(Tail(lines), d, t)

ParseBlock(block) == ParseLines(Split(Strip(block), "\n"), None, None)

\* the untitled block returned stripped, as the enriched blocks are
PassThroughStripped(block) == Strip(block)

\* return block: what a block without a title is returned as
PassThrough(block) == block

\* _process_paper_block: parse the block, pass it through when it has no title
ProcessStart ==
    /\ pc = "start"
    /\ LET parsed == ParseBlock(blocks[i + 1])
       IN  /\ doi' = parsed[1]
           /\ title' = parsed[2]
           /\ IF ~Truthy(parsed[2])
              THEN /\ results_log' = _log_result(results_log, "ERROR: No title found, skipping paper")
                   /\ block_ret' = PassThrough(blocks[i + 1])
                   /\ pc' = "append"
              ELSE /\ results_log' = LogAll(results_log,
                          <<"Processing: " \o Prefix(parsed[2], 60) \o "...",
                            "DOI: " \o Str(parsed[1])>>)
                   /\ block_ret' = None
                   /\ pc' = "authoritative"
    /\ result' = NewResult
    /\ UNCHANGED <<content, blocks, enriched_blocks, i, search_results, cand, calls,
                   log_mark, sleeps, raised, output>>
    /\ UNCHANGED <<fileVars, events, fnVars>>

\* one collaborator call: the operation, its argument, the requested result count
\* (search only) and whether it returned anything
Call(op, arg, num, yielded) == [op |-> op, arg |-> arg, num |-> num, yielded |-> yielded]

\* the update with a webpage confidence taken from the computed scores
DoiUpdateComputedWebpage(r, authors, abstract, url, ac, bc) ==
    [r EXCEPT !.authors = authors, !.abstract = abstract, !.webpage = url,
              !.author_confidence = ac, !.abstract_confidence = bc,
              !.webpage_confidence = Min(ac, bc),
              !.source_method = "DOI_DIRECT"]

\* the update that leaves the confidence of a field without data at 0
DoiUpdatePopulatedOnly(r, authors, abstract, url, ac, bc) ==
    [r EXCEPT !.authors = authors, !.abstract = abstract, !.webpage = url,
              !.author_confidence = IF authors = "" THEN 0 ELSE ac,
              !.abstract_confidence = IF abstract = "" THEN 0 ELSE bc,
              !.webpage_confidence = 95,
              !.source_method = "DOI_DIRECT"]

\* result.update({...}) of the DOI stage
DoiUpdate(r, authors, abstract, url, ac, bc) ==
    [r EXCEPT !.authors = authors, !.abstract = abstract, !.webpage = url,
              !.author_confidence = ac, !.abstract_confidence = bc,
              !.webpage_confidence = 95,
              !.source_method = "DOI_DIRECT"]

\* the fallback update starting from a clean error list
SearchUpdateClearingErrors(r, authors, abstract, link, ac, bc) ==
    [r EXCEPT !.authors = authors, !.abstract = abstract, !.webpage = link,
              !.author_confidence = ac, !.abstract_confidence = bc,
              !.webpage_confidence = 50,
              !.source_method = "GOOGLE_FALLBACK",
              !.errors = <<>>]

\* result.update({...}) of the fallback stage
SearchUpdate(r, authors, abstract, link, ac, bc) ==
    [r EXCEPT !.authors = authors, !.abstract = abstract, !.webpage = link,
              !.author_confidence = ac, !.abstract_confidence = bc,
              !.webpage_confidence = 50,
              !.source_method = "GOOGLE_FALLBACK"]

\* _process_paper_block: the DOI stage
TryAuthoritative ==
    /\ pc = "authoritative"
    /\ IF Truthy(doi) /\ doi /= "Not available" /\ ~Contains(doi, "ISBN")
       THEN \E net \in ResolverOutcomes, page \in Pages :
              LET resolved == resolve(doi, net)
                  resolved_url == resolved[1]
                  doi_status == resolved[2]
                  extracted == extract_from_url(resolved_url, page)
                  abstract == extracted[1]
                  authors == extracted[2]
                  author_validation == validate(authors, title, "authors")
                  abstract_validation == validate(abstract, title, "abstract")
                  ac == calculate("authors", "doi_direct", author_validation)
                  bc == calculate("abstract", "doi_direct", abstract_validation)
              IN  IF Truthy(resolved_url)
                  THEN /\ calls' = calls \o <<Call("resolve", doi, 0, TRUE),
                                               Call("extract", resolved_url, 0,
                                                    authors /= "" \/ abstract /= "")>>
                       /\ IF authors /= "" \/ abstract /= ""
                          THEN /\ result' = DoiUpdate(result, authors, abstract,
                                                     resolved_url, ac, bc)
                               /\ results_log' = LogAll(results_log,
                                      <<"Attempting DOI resolution...",
                                        "DOI resolved to: " \o resolved_url,
                                        "Authors confidence: " \o ToStr(ac) \o "%",
                                        "Abstract confidence: " \o ToStr(bc) \o "%">>)
                          ELSE /\ result' = [result EXCEPT
                                      !.errors = Append(@, "DOI page metadata extraction failed")]
                               /\ results_log' = LogAll(results_log,
                                      <<"Attempting DOI resolution...",
                                        "DOI resolved to: " \o resolved_url,
                                        "Failed to extract metadata from DOI page">>)
                  ELSE \* no page is fetched: the choice of page plays no part
                       /\ page = PageDown
                       /\ calls' = Append(calls, Call("resolve", doi, 0, FALSE))
                       /\ result' = [result EXCEPT
                              !.errors = Append(@, "DOI resolution failed: " \o doi_status)]
                       /\ results_log' = LogAll(results_log,
                              <<"Attempting DOI resolution...",
                                "DOI resolution failed: " \o doi_status>>)
       ELSE UNCHANGED <<calls, result, results_log>>
    /\ pc' = "fallback"
    /\ UNCHANGED <<content, blocks, enriched_blocks, i, block_ret, doi, title,
                   search_results, cand, log_mark, sleeps, raised, output>>
    /\ events' = IF calls' = calls THEN events
                  ELSE [events EXCEPT
                          !.doi_attempts = @ + 1,
                          !.doi_successes = @ + (IF calls'[Len(calls) + 1].yielded THEN 1 ELSE 0),
                          !.doi_failures = @ + (IF calls'[Len(calls) + 1].yielded THEN 0 ELSE 1)]
    /\ UNCHANGED <<fileVars, fnVars>>

NumResults == 3

MaxCandidates == 2

\* the fallback test with the abstract left out
needs_fallback_authors_only(r) == r.authors = ""

\* if not result['authors'] and not result['abstract']
needs_fallback(r) == r.authors = "" /\ r.abstract = ""

\* _process_paper_block: the decision to fall back and the search request
FallbackSearch ==
    /\ pc = "fallback"
    /\ IF needs_fallback(result)
       THEN \E net \in SearchOutcomes :
              LET query == "\"" \o title \o "\""
                  found == search(query, NumResults, net)
              IN  /\ calls' = Append(calls, Call("search", query, NumResults, found /= <<>>))
                  /\ search_results' = found
                  /\ IF found /= <<>>
                     THEN /\ results_log' = _log_result(results_log, "Falling back to Google search...")
                          /\ result' = result
                          /\ pc' = "candidates"
                     ELSE /\ results_log' = LogAll(results_log,
                                 <<"Falling back to Google search...", "No search results found">>)
                          /\ result' = [result EXCEPT !.errors = Append(@, "No search results found")]
                          /\ pc' = "review"
       ELSE /\ pc' = "review"
            /\ UNCHANGED <<calls, search_results, results_log, result>>
    /\ cand' = 0
    /\ UNCHANGED <<content, blocks, enriched_blocks, i, block_ret, doi, title,
                   log_mark, sleeps, raised, output>>
    /\ events' = IF calls' = calls THEN events
                  ELSE [events EXCEPT
                          !.fallback_attempts = @ + 1,
                          !.no_results = @ + (IF search_results' = <<>> THEN 1 ELSE 0)]
    /\ UNCHANGED <<fileVars, fnVars>>

\* the candidate loop without the [:2] slice
CandidatesAll(found) == found

\* search_results[:2]
Candidates(found) == SubSeq(found, 1, Min(Len(found), MaxCandidates))

\* _process_paper_block: one iteration of the loop over search_results[:2]
TryCandidate ==
    /\ pc = "candidates"
    /\ cand < Len(Candidates(search_results))
    /\ LET search_result == Candidates(search_results)[cand + 1]
       IN  IF search_result.title = None
           THEN \* None[:50] raises TypeError, which nothing catches
                /\ raised' = "TypeError"
                /\ pc' = "raised"
                /\ UNCHANGED <<results_log, result, calls, cand>>
           ELSE \E page \in Pages :
                  LET extracted == extract_from_url(search_result.link, page)
                      abstract == extracted[1]
                      authors == extracted[2]
                      validation == validate(authors, title, "authors")
                      tried == _log_result(results_log,
                                  "Trying search result " \o ToStr(cand + 1) \o ": "
                                  \o Prefix(search_result.title, 50) \o "...")
                  IN  /\ calls' = Append(calls, Call("extract", search_result.link, 0,
                                                  authors /= "" \/ abstract /= ""))
                      /\ raised' = raised
                      /\ IF authors /= "" \/ abstract /= ""
                         THEN /\ result' = SearchUpdate(result, authors, abstract,
                                                       search_result.link,
                                                       calculate("authors", "google_search", validation),
                                                       calculate("abstract", "google_search", validation))
                              /\ results_log' = _log_result(tried, "Fallback extraction successful")
                              /\ cand' = cand
                              /\ pc' = "review"
                         ELSE /\ result' = result
                              /\ results_log' = tried
                              /\ cand' = cand + 1
                              /\ pc' = "candidates"
    /\ UNCHANGED <<content, blocks, enriched_blocks, i, block_ret, doi, title,
                   search_results, log_mark, sleeps, output>>
    /\ events' = [events EXCEPT
                      !.fallback_successes =
                          @ + (IF result'.source_method = "GOOGLE_FALLBACK" THEN 1 ELSE 0)]
    /\ UNCHANGED <<fileVars, fnVars>>

\* _process_paper_block: the candidate loop runs out without a break
CandidatesExhausted ==
    /\ pc = "candidates"
    /\ cand >= Len(Candidates(search_results))
    /\ pc' = "review"
    /\ UNCHANGED <<content, results_log, blocks, enriched_blocks, i, block_ret, doi,
                   title, result, search_results, cand, calls, log_mark, sleeps,
                   raised, output>>
    /\ UNCHANGED <<fileVars, events, fnVars>>

ReviewThreshold == 70

low_confidence(r) ==
    \/ r.author_confidence < ReviewThreshold
    \/ r.abstract_confidence < ReviewThreshold
    \/ r.webpage_confidence < ReviewThreshold

PyBool(b) == IF b THEN "True" ELSE "False"

\* the enriched block built from the stripped input block and the result
EnrichedBlock(block, r) ==
    Strip(block)
    \o (IF r.authors /= ""
        THEN "\nAuthors: " \o r.authors
             \o "\nAuthor_Confidence: " \o ToStr(r.author_confidence) \o "%"
        ELSE "")
    \o (IF r.abstract /= ""
        THEN "\nAbstract: " \o r.abstract
             \o "\nAbstract_Confidence: " \o ToStr(r.abstract_confidence) \o "%"
        ELSE "")
    \o (IF Truthy(r.webpage)
        THEN "\nWebpage: " \o r.webpage
             \o "\nWebpage_Confidence: " \o ToStr(r.webpage_confidence) \o "%"
        ELSE "")
    \o "\nSource_Method: " \o r.source_method
    \o "\nNeeds_Review: " \o PyBool(r.needs_review)
    \o (IF r.errors /= <<>> THEN "\nErrors: " \o Join(r.errors, "; ") ELSE "")

\* _process_paper_block: review decision, final log lines, enriched block
Finish ==
    /\ pc = "review"
    /\ LET review == low_confidence(result) \/ result.errors /= <<>>
           final == [result EXCEPT !.needs_review = review]
       IN  /\ result' = final
           /\ results_log' = LogAll(results_log,
                 (IF review THEN <<"[REVIEW NEEDED] Low confidence or errors detected">> ELSE <<>>)
                 \o <<"Final confidence scores - Authors: " \o ToStr(final.author_confidence)
                      \o "%, Abstract: " \o ToStr(final.abstract_confidence)
                      \o "%, Webpage: " \o ToStr(final.webpage_confidence) \o "%">>
                 \o (IF final.errors /= <<>>
                     THEN <<"Errors: " \o Join(final.errors, "; ")>> ELSE <<>>))
           /\ block_ret' = EnrichedBlock(blocks[i + 1], final)
    /\ pc' = "append"
    /\ UNCHANGED <<content, blocks, enriched_blocks, i, doi, title, search_results,
                   cand, calls, log_mark, sleeps, raised, output>>
    /\ events' = [events EXCEPT
                      !.needs_review = @ + (IF result'.needs_review THEN 1 ELSE 0)]
    /\ UNCHANGED <<fileVars, fnVars>>

\* the loop body with the delay left out for a paper that was skipped
AppendAndSleepUnlessSkipped ==
    /\ pc = "append"
    /\ enriched_blocks' = Append(enriched_blocks, block_ret)
    /\ sleeps' = IF Truthy(title) THEN sleeps + 1 ELSE sleeps
    /\ i' = i + 1
    /\ pc' = "loop"
    \* the locals of _process_paper_block are gone once it has returned
    /\ block_ret' = None
    /\ doi' = None
    /\ title' = None
    /\ result' = NewResult
    /\ search_results' = <<>>
    /\ cand' = 0
    /\ calls' = <<>>
    /\ UNCHANGED <<content, results_log, blocks, log_mark, raised, output>>
    /\ UNCHANGED <<fileVars, events, fnVars>>

\* enrich: collect the returned block and sleep before the next paper
AppendAndSleep ==
    /\ pc = "append"
    /\ enriched_blocks' = Append(enriched_blocks, block_ret)
    /\ sleeps' = sleeps + 1
    /\ i' = i + 1
    /\ pc' = "loop"
    \* the locals of _process_paper_block are gone once it has returned
    /\ block_ret' = None
    /\ doi' = None
    /\ title' = None
    /\ result' = NewResult
    /\ search_results' = <<>>
    /\ cand' = 0
    /\ calls' = <<>>
    /\ UNCHANGED <<content, results_log, blocks, log_mark, raised, output>>
    /\ UNCHANGED <<fileVars, events, fnVars>>

(***************************************************************************)
(* MetadataEnricher._analyze_results on the text of the log file.          *)
(***************************************************************************)
IsDigit(c) == c /= "" /\ Contains("0123456789", c)

\* number of digits of text starting at position k
RECURSIVE DigitRun(_, _)
DigitRun(text, k) ==
    IF k <= Len(text) /\ IsDigit(CharAt(text, k)) THEN 1 + DigitRun(text, k + 1) ELSE 0

\* a match of \[\d+/\d+\] starts at position k
PaperMarkerAt(text, k) ==
    LET d1 == DigitRun(text, k + 1)
        d2 == DigitRun(text, k + d1 + 2)
    IN  /\ CharAt(text, k) = "["
        /\ d1 >= 1
        /\ CharAt(text, k + d1 + 1) = "/"
        /\ d2 >= 1
        /\ CharAt(text, k + d1 + d2 + 2) = "]"

\* len(re.findall(p, text)) for a literal p that cannot overlap itself;
\* at holds the positions of text where a pattern can start
Count(text, at, p) ==
    Cardinality({k \in at : k + Len(p) - 1 <= Len(text) /\ SubSeq(text, k, k + Len(p) - 1) = p})

\* first characters of the patterns searched for
PatternHeads == {"[", "A", "D", "F", "N", "c", "H"}

\* f"{a/b*100:.1f}": tenths of a percent, a tie going to the even digit
PercentTenths(a, b) ==
    LET q == (1000 * a) \div b
        r == (1000 * a) % b
    IN  IF 2 * r > b THEN q + 1
        ELSE IF 2 * r = b THEN q + (q % 2)
        ELSE q

Percent(a, b) ==
    ToStr(PercentTenths(a, b) \div 10) \o "." \o ToStr(PercentTenths(a, b) % 10)

\* the counts taken from the text, and the exception the report raises, if any
_analyze_results(text) ==
    IF text = None
    THEN [ran |-> TRUE, read |-> FALSE, raises |-> ""]
    ELSE LET at == {k \in 1..Len(text) : CharAt(text, k) \in PatternHeads}
             total_papers == Cardinality({k \in at : PaperMarkerAt(text, k)})
             doi_attempts == Count(text, at, "Attempting DOI resolution")
             doi_successes == Count(text, at, "DOI resolved to:")
             doi_failures == Count(text, at, "DOI resolution failed:")
             fallback_attempts == Count(text, at, "Falling back to Google search")
             fallback_successes == Count(text, at, "Fallback extraction successful")
             no_results == Count(text, at, "No search results found")
             high_conf_90 == Count(text, at, "confidence: 90%")
             med_conf_70 == Count(text, at, "confidence: 70%")
             med_conf_60 == Count(text, at, "confidence: 60%")
             zero_conf == Count(text, at, "confidence: 0%")
             needs_review == Count(text, at, "[REVIEW NEEDED]")
             http_403 == Count(text, at, "HTTP 403")
             http_202 == Count(text, at, "HTTP 202")
             divides == \/ fallback_attempts > 0
                        \/ high_conf_90 + med_conf_70 + med_conf_60 + zero_conf > 0
                        \/ needs_review > 0
         IN  [ran |-> TRUE, read |-> TRUE,
              total_papers |-> total_papers,
              doi_attempts |-> doi_attempts,
              doi_successes |-> doi_successes,
              doi_failures |-> doi_failures,
              doi_success_rate |->
                  IF doi_attempts > 0 THEN Percent(doi_successes, doi_attempts) ELSE "",
              fallback_attempts |-> fallback_attempts,
              fallback_successes |-> fallback_successes,
              no_results |-> no_results,
              high_conf_90 |-> high_conf_90,
              med_conf_70 |-> med_conf_70,
              med_conf_60 |-> med_conf_60,
              zero_conf |-> zero_conf,
              needs_review |-> needs_review,
              http_403 |-> http_403,
              http_202 |-> http_202,
              raises |-> IF total_papers = 0 /\ divides THEN "ZeroDivisionError" ELSE ""]

\* enrich: write the enriched blocks joined by blank lines
WriteOutput ==
    /\ pc = "loop"
    /\ i >= Len(blocks)
    /\ \E writable \in BOOLEAN :
          IF writable
          THEN /\ output' = Join(enriched_blocks, "\n\n")
               /\ raised' = raised
               /\ pc' = "written"
          ELSE /\ output' = output
               /\ raised' = "IOError"
               /\ pc' = "raised"
    /\ UNCHANGED <<content, results_log, blocks, enriched_blocks, i, paperVars,
                   log_mark, sleeps, fileVars, events, fnVars>>

\* enrich: write the log file; a failure is only warned about
WriteLog ==
    /\ pc = "written"
    /\ \E writable \in BOOLEAN :
          log_file' = IF writable THEN Join(results_log, "\n") ELSE log_file
    /\ pc' = "logged"
    /\ UNCHANGED <<content, results_log, blocks, enriched_blocks, i, paperVars,
                   log_mark, sleeps, raised, output, stats, events, fnVars>>

\* enrich: the two closing log entries
LogCompletion ==
    /\ pc = "logged"
    /\ results_log' = LogAll(results_log,
          <<"\nProcessing completed! Results saved to " \o OutputPath,
            "Detailed log available in " \o LogPath>>)
    /\ pc' = "analyze"
    /\ UNCHANGED <<content, blocks, enriched_blocks, i, paperVars, log_mark, sleeps,
                   raised, output, fileVars, events, fnVars>>

\* enrich: analyse the log file and return len(blocks)
AnalyzeResults ==
    /\ pc = "analyze"
    /\ stats' = _analyze_results(log_file)
    /\ raised' = stats'.raises
    /\ pc' = IF stats'.raises = "" THEN "returned" ELSE "raised"
    /\ UNCHANGED <<content, results_log, blocks, enriched_blocks, i, paperVars,
                   log_mark, sleeps, output, log_file, events, fnVars>>

Next ==
    \/ EnrichBegin
    \/ LoopHead
    \/ ProcessStart
    \/ TryAuthoritative
    \/ FallbackSearch
    \/ TryCandidate
    \/ CandidatesExhausted
    \/ Finish
    \/ AppendAndSleep
    \/ WriteOutput
    \/ WriteLog
    \/ LogCompletion
    \/ AnalyzeResults

Spec == Init /\ [][Next]_vars

(***************************************************************************)
(* The component functions applied on their own: one application of        *)
(* calculate, resolve or _analyze_results to arguments drawn from the sets *)
(* below, outside any run of enrich.                                       *)
(***************************************************************************)
CalcMethods == {"doi_direct", "google_search", "fallback", "semantic_scholar"}

CalcKinds == {"authors", "abstract", "webpage"}

FlagSets == [format_valid : BOOLEAN, content_relevant : BOOLEAN, source_reliable : BOOLEAN]

CalcInputs ==
    {[fn |-> "calculate", data_type |-> k, source_method |-> m, validation_results |-> f] :
        k \in CalcKinds, m \in CalcMethods, f \in FlagSets}

ResolveDois == {None, "", "Not available", "ISBN 978-0-13-110362-7", "10.1/xyz"}

ResolveInputs ==
    {[fn |-> "resolve", doi |-> d, net |-> n] : d \in ResolveDois, n \in ResolverOutcomes}

\* a log of three papers, two of them resolved
LogThreePapers ==
    Join(<<"[1/3] Processing paper...", "Attempting DOI resolution...",
           "DOI resolved to: https://pub.example/a",
           "[2/3] Processing paper...", "Attempting DOI resolution...",
           "DOI resolved to: https://pub.example/b",
           "[3/3] Processing paper...", "Attempting DOI resolution...",
           "Falling back to Google search...", "No search results found">>, "\n")

LogTexts ==
    {None, "", LogThreePapers,
     "PROCESSING STARTED\nFound 0 papers to process",
     "[1/1] Processing paper...\nFalling back to Google search...",
     "Falling back to Google search...",
     "Authors confidence: 90%",
     "[REVIEW NEEDED] Low confidence or errors detected"}

AnalyzeInputs == {[fn |-> "analyze", text |-> t] : t \in LogTexts}

\* the request fails, the status is not a success, or the body is no JSON object
SearchFailures ==
    {[kind |-> "error", items |-> <<>>],
     [kind |-> "http_error", items |-> <<>>],
     [kind |-> "malformed", items |-> <<>>]}

SearchNums == {3, 5}

SearchInputs ==
    {[fn |-> "search", query |-> "\"Graph Study\"", num_results |-> n, net |-> o] :
        n \in SearchNums, o \in SearchOutcomes \cup SearchFailures}

ExtractInputs ==
    {[fn |-> "extract", url |-> u, page |-> p] :
        u \in {None, "https://a.example/p"}, p \in Pages \cup BoundaryPages}

FnInputs ==
    CalcInputs \cup ResolveInputs \cup AnalyzeInputs \cup SearchInputs \cup ExtractInputs

InitFn ==
    /\ content = None
    /\ pc = "fn"
    /\ results_log = <<>>
    /\ blocks = <<>>
    /\ enriched_blocks = <<>>
    /\ i = 0
    /\ block_ret = None
    /\ doi = None
    /\ title = None
    /\ result = NewResult
    /\ search_results = <<>>
    /\ cand = 0
    /\ calls = <<>>
    /\ log_mark = 0
    /\ sleeps = 0
    /\ raised = ""
    /\ output = None
    /\ log_file = None
    /\ stats = NoStats
    /\ events = NoEvents
    /\ fn_args \in FnInputs
    /\ fn_ret = NoRet

enrichVars ==
    <<content, pc, results_log, blocks, enriched_blocks, i, block_ret, doi, title,
      result, search_results, cand, calls, log_mark, sleeps, raised, output,
      log_file, stats, events>>

ApplyCalculate ==
    /\ pc = "fn"
    /\ fn_args.fn = "calculate"
    /\ ~fn_ret.done
    /\ fn_ret' = [done |-> TRUE, raised |-> "", requests |-> 0,
                  value |-> calculate(fn_args.data_type, fn_args.source_method,
                                      fn_args.validation_results)]
    /\ UNCHANGED <<enrichVars, fn_args>>

ApplyResolve ==
    /\ pc = "fn"
    /\ fn_args.fn = "resolve"
    /\ ~fn_ret.done
    /\ fn_ret' = [done |-> TRUE, raised |-> "",
                  requests |-> resolve_requests(fn_args.doi),
                  value |-> resolve(fn_args.doi, fn_args.net)]
    /\ UNCHANGED <<enrichVars, fn_args>>

ApplyAnalyze ==
    /\ pc = "fn"
    /\ fn_args.fn = "analyze"
    /\ ~fn_ret.done
    /\ fn_ret' = [done |-> TRUE, raised |-> _analyze_results(fn_args.text).raises,
                  requests |-> 0,
                  value |-> _analyze_results(fn_args.text)]
    /\ UNCHANGED <<enrichVars, fn_args>>

ApplySearch ==
    /\ pc = "fn"
    /\ fn_args.fn = "search"
    /\ ~fn_ret.done
    /\ fn_ret' = [done |-> TRUE, raised |-> "", requests |-> 1,
                  value |-> search(fn_args.query, fn_args.num_results, fn_args.net)]
    /\ UNCHANGED <<enrichVars, fn_args>>

ApplyExtract ==
    /\ pc = "fn"
    /\ fn_args.fn = "extract"
    /\ ~fn_ret.done
    /\ fn_ret' = [done |-> TRUE, raised |-> "",
                  requests |-> IF fn_args.url = None THEN 0 ELSE 1,
                  value |-> extract_from_url(fn_args.url, fn_args.page)]
    /\ UNCHANGED <<enrichVars, fn_args>>

NextFn ==
    \/ ApplyExtract
    \/ ApplyCalculate
    \/ ApplyResolve
    \/ ApplyAnalyze
    \/ ApplySearch

SpecFn == InitFn /\ [][NextFn]_vars

(***************************************************************************)
(* Properties of the enrichment pipeline.  A paper's result is complete    *)
(* when _process_paper_block has returned (pc = "append").                 *)
(***************************************************************************)
PaperReturned == pc = "append"

TitledPaperReturned == pc = "append" /\ Truthy(title)

LinesOf(text) == Split(text, "\n")

HasLine(text, line) == \E k \in DOMAIN LinesOf(text) : LinesOf(text)[k] = line

InSeq(x, seq) == \E k \in DOMAIN seq : seq[k] = x

\* the entries logged for the current paper
PaperLog == SubSeq(results_log, log_mark + 1, Len(results_log))

SearchCalled == \E k \in DOMAIN calls : calls[k].op = "search"

NoData(r) == r.authors = "" /\ r.abstract = ""

\* C1: for a titled paper, needs_review is true iff some populated confidence
\* (one whose field authors/abstract/webpage is non-empty) is below 70 or
\* errors is non-empty; with nothing populated and no errors it is false.
AnyPopulatedLow(r) ==
    \/ (r.authors /= "" /\ r.author_confidence < 70)
    \/ (r.abstract /= "" /\ r.abstract_confidence < 70)
    \/ (r.webpage /= "" /\ r.webpage_confidence < 70)

C1_NeedsReviewIff ==
    TitledPaperReturned =>
        (result.needs_review <=> (AnyPopulatedLow(result) \/ result.errors /= <<>>))

\* C2: with a usable identifier the DOI resolution is attempted before any
\* search, no resolution follows a search, and the search client is called only
\* while authors and abstract are both still empty after the DOI stage.
ValidIdentifier(d) ==
    d /= None /\ d /= "" /\ d /= "Not available" /\ ~Contains(d, "ISBN")

C2_AuthoritativeBeforeFallback ==
    \A k \in DOMAIN calls :
        calls[k].op = "search" =>
            /\ ValidIdentifier(doi) =>
                  \E j \in 1..(k - 1) : calls[j].op = "resolve" /\ calls[j].arg = doi
            /\ \A j \in DOMAIN calls : calls[j].op = "resolve" => j < k
            /\ \A j \in 1..(k - 1) : ~calls[j].yielded \/ calls[j].op = "resolve"
            /\ result.source_method /= "DOI_DIRECT"

C2_Witness ==
    /\ Len(calls) >= 3
    /\ calls[1].op = "resolve" /\ calls[1].yielded
    /\ calls[2].op = "extract" /\ ~calls[2].yielded
    /\ calls[3].op = "search"

C4_NoDataBlockLines ==
    (TitledPaperReturned /\ NoData(result)) =>
        /\ HasLine(block_ret, "Source_Method: NONE")
        /\ HasLine(block_ret, "Needs_Review: True")

\* C5: source_method is one of DOI_DIRECT, GOOGLE_FALLBACK, NONE; it is NONE
\* iff authors and abstract are both empty, DOI_DIRECT iff the data came from
\* the DOI stage and GOOGLE_FALLBACK iff it came from a search candidate.
DataFromDoiStage ==
    \E k \in DOMAIN calls :
        /\ calls[k].op = "extract" /\ calls[k].yielded
        /\ \A j \in 1..k : calls[j].op /= "search"

DataFromCandidate ==
    \E k \in DOMAIN calls :
        /\ calls[k].op = "extract" /\ calls[k].yielded
        /\ \E j \in 1..k : calls[j].op = "search"

C5_SourceMethod ==
    TitledPaperReturned =>
        /\ result.source_method \in {"DOI_DIRECT", "GOOGLE_FALLBACK", "NONE"}
        /\ result.source_method = "NONE" <=> NoData(result)
        /\ result.source_method = "DOI_DIRECT" <=> DataFromDoiStage
        /\ result.source_method = "GOOGLE_FALLBACK" <=> DataFromCandidate

\* C6: every populated confidence of a result is an integer in 0..100,
\* whichever stage produced it and whatever the validation flags are.
C6_ConfidenceRange ==
    /\ result.authors /= "" => result.author_confidence \in 0..100
    /\ result.abstract /= "" => result.abstract_confidence \in 0..100
    /\ result.webpage /= "" => result.webpage_confidence \in 0..100

\* both flags true on top of the DOI base: the score is cut back to 100
C6_Witness ==
    /\ result.source_method = "DOI_DIRECT"
    /\ result.authors /= ""
    /\ validate(result.authors, title, "authors").format_valid
    /\ validate(result.authors, title, "authors").content_relevant
    /\ result.author_confidence = 100

\* C7: the written document has as many blank-line-delimited non-empty
\* segments as the input, the k-th being the block returned for the k-th input
\* block; no enriched block is split in two by a blank line inside it.
C7_BlockCountPreserved ==
    pc = "written" =>
        /\ Len(SplitBlocks(output)) = Len(SplitBlocks(content))
        /\ \A k \in DOMAIN SplitBlocks(output) :
              k <= Len(enriched_blocks) => SplitBlocks(output)[k] = enriched_blocks[k]

\* C8: a block with no Title line, or only empty ones, is returned identical
\* to the input, with no collaborator call, the error logged and no
\* '[REVIEW NEEDED]' entry.
NoTitle(block) ==
    \A k \in DOMAIN LinesOf(Strip(block)) :
        LET line == LinesOf(Strip(block))[k]
        IN  StartsWith(line, "Title:") => Strip(SubSeq(line, 7, Len(line))) = ""

C8_UntitledPassThrough ==
    (PaperReturned /\ NoTitle(blocks[i + 1])) =>
        /\ block_ret = blocks[i + 1]
        /\ calls = <<>>
        /\ InSeq(LogEntry("ERROR: No title found, skipping paper"), PaperLog)
        /\ \A k \in DOMAIN PaperLog : ~Contains(PaperLog[k], "[REVIEW NEEDED]")

\* an untitled block that stripping would change
C8_Witness ==
    /\ PaperReturned
    /\ NoTitle(blocks[i + 1])
    /\ Strip(blocks[i + 1]) /= blocks[i + 1]
    /\ block_ret = blocks[i + 1]

\* C9: the search is made with the quoted title for 3 results; at most the
\* first 2 candidates are fetched, in the order returned; every fetched
\* candidate but the last yielded nothing; the webpage of a fallback result is
\* the link of the candidate that yielded.
C9_CandidateOrder ==
    \A k \in DOMAIN calls :
        calls[k].op = "search" =>
            LET fetched == Len(calls) - k
            IN  /\ calls[k].arg = "\"" \o title \o "\""
                /\ calls[k].num = 3
                /\ fetched <= 2
                /\ \A m \in 1..fetched :
                      /\ calls[k + m].op = "extract"
                      /\ calls[k + m].arg = search_results[m].link
                /\ \A m \in 1..(fetched - 1) : ~calls[k + m].yielded
                /\ result.source_method = "GOOGLE_FALLBACK" <=>
                      (fetched >= 1 /\ calls[Len(calls)].yielded)
                /\ result.source_method = "GOOGLE_FALLBACK" =>
                      result.webpage = search_results[fetched].link

\* three candidates returned, the first yields nothing, the second yields
C9_Witness ==
    /\ pc = "review"
    /\ Len(search_results) = 3
    /\ result.source_method = "GOOGLE_FALLBACK"
    /\ result.webpage = search_results[2].link
    /\ \E k \in DOMAIN calls : calls[k].op = "search" /\ Len(calls) = k + 2

C11_WebpageConfidenceFixed ==
    /\ result.source_method = "DOI_DIRECT" <=> result.webpage_confidence = 95
    /\ result.source_method = "GOOGLE_FALLBACK" <=> result.webpage_confidence = 50
    /\ result.source_method \in {"DOI_DIRECT", "GOOGLE_FALLBACK"} =>
          /\ result.webpage /= "" /\ result.webpage /= None
          /\ \E k \in DOMAIN calls :
                calls[k].op = "extract" /\ calls[k].yielded /\ calls[k].arg = result.webpage

\* a DOI result whose two computed confidences differ from each other and from 95
C11_Witness ==
    /\ result.source_method = "DOI_DIRECT"
    /\ result.webpage_confidence = 95
    /\ result.author_confidence = 90
    /\ result.abstract_confidence = 100
    /\ result.webpage = "https://pub.example/xyz"

\* C12: the delay is performed exactly once after each block's processing and
\* before the next block starts, whether the paper succeeded, failed in every
\* stage or was skipped; a completed batch of n blocks has performed n delays.
InPaper == pc \in {"start", "authoritative", "fallback", "candidates", "review", "append"}

C12_OneDelayPerBlock ==
    /\ sleeps = Len(enriched_blocks)
    /\ InPaper => sleeps = i
    /\ (pc /= "idle" /\ i >= Len(blocks)) => sleeps = Len(blocks)

\* three blocks done: one without data, one skipped for its missing title
C12_Witness ==
    /\ Len(blocks) = 3
    /\ i = 3
    /\ sleeps = 3
    /\ Contains(enriched_blocks[1], "Errors: No search results found")
    /\ enriched_blocks[2] = blocks[2]
    /\ Contains(enriched_blocks[3], "Source_Method: GOOGLE_FALLBACK")

TrueFlags(f) ==
    (IF f.format_valid THEN 1 ELSE 0) + (IF f.content_relevant THEN 1 ELSE 0)
    + (IF f.source_reliable THEN 1 ELSE 0)

CalculateReturned == fn_ret.done /\ fn_args.fn = "calculate"

\* C13: calculate returns min(100, base + 10 * (number of true flags)) with
\* base 90 for doi_direct, 60 for google_search and 30 for every other
\* method, whatever data_type is, and changes nothing else.
C13_CalculateFormula ==
    CalculateReturned =>
        LET m == fn_args.source_method
            base == IF m = "doi_direct" THEN 90 ELSE IF m = "google_search" THEN 60 ELSE 30
            expected == Min(100, base + 10 * TrueFlags(fn_args.validation_results))
        IN  /\ fn_ret.value = expected
            /\ \A k \in CalcKinds :
                  calculate(k, m, fn_args.validation_results) = fn_ret.value
            /\ fn_ret.raised = ""
            /\ results_log = <<>> /\ calls = <<>> /\ result = NewResult

\* an unlisted method with all three flags true has been scored
C13_Witness ==
    /\ CalculateReturned
    /\ fn_args.source_method = "semantic_scholar"
    /\ TrueFlags(fn_args.validation_results) = 3
    /\ fn_ret.value = 60

NoFlags == [format_valid |-> FALSE, content_relevant |-> FALSE, source_reliable |-> FALSE]

\* every text an extraction can hand to validate, the empty ones included
ValidateData ==
    {"", None} \cup {PageText[p][1] : p \in Pages} \cup {PageText[p][2] : p \in Pages}

ValidateTitles == {None, "", "Graph Study"}

ValidateKinds == {"authors", "abstract", "webpage"}

\* validate applied to each of these inputs
ValidateTable ==
    [d \in ValidateData, t \in ValidateTitles, k \in ValidateKinds |-> validate(d, t, k)]

\* C14: validate gives three false flags for empty data and never sets
\* source_reliable, so a confidence of the fallback stage never exceeds 80
\* (base 60 plus two flags).
C14_SourceReliableNeverSet ==
    /\ PaperReturned =>
          \A d \in ValidateData, k \in ValidateKinds :
              /\ ~ValidateTable[d, title, k].source_reliable
              /\ ~Truthy(d) => ValidateTable[d, title, k] = NoFlags
    /\ result.source_method = "GOOGLE_FALLBACK" =>
          /\ result.author_confidence <= BaseGoogleSearch + 2 * FlagBonus
          /\ result.abstract_confidence <= BaseGoogleSearch + 2 * FlagBonus
    /\ result.source_method = "DOI_DIRECT" =>
          /\ result.author_confidence <= BaseDoiDirect + 2 * FlagBonus
          /\ result.abstract_confidence <= BaseDoiDirect + 2 * FlagBonus

\* a fallback result whose authors passed both computed checks
C14_Witness ==
    /\ PaperReturned
    /\ result.source_method = "GOOGLE_FALLBACK"
    /\ result.authors /= ""
    /\ result.author_confidence = 80

ResolveReturned == fn_ret.done /\ fn_args.fn = "resolve"

NotAttempted(d) == ~Truthy(d) \/ d = "Not available" \/ Contains(d, "ISBN")

\* C15: resolve never raises; for an absent, 'Not available' or ISBN-tagged
\* identifier it returns (None, message) without a network request;
\* otherwise it issues one request and returns the final URL on status 200
\* and (None, reason) on any other status or on an exception.
C15_ResolveTotal ==
    ResolveReturned =>
        /\ fn_ret.raised = ""
        /\ Len(fn_ret.value) = 2
        /\ fn_ret.value[2] /= None /\ fn_ret.value[2] /= ""
        /\ IF NotAttempted(fn_args.doi)
           THEN fn_ret.value[1] = None /\ fn_ret.requests = 0
           ELSE /\ fn_ret.requests = 1
                /\ IF fn_args.net.kind = "response" /\ fn_args.net.status = 200
                   THEN fn_ret.value[1] = fn_args.net.url
                   ELSE fn_ret.value[1] = None

\* an ISBN-tagged identifier was given while the network would have answered 200
C15_Witness ==
    /\ ResolveReturned
    /\ Contains(fn_args.doi, "ISBN")
    /\ fn_args.net.kind = "response" /\ fn_args.net.status = 200
    /\ fn_ret.value = <<None, "No valid DOI">>

\* enrich has gone past the write of the log file
PastLogWrite == pc \in {"logged", "analyze", "returned"}

\* C16: a failure to read the input or to write the output file or the log
\* file makes enrich raise: a run that goes on past the write of the log
\* file has written it, and a run whose input does not exist has raised.
C16_IOFailuresAbort ==
    /\ (content = None /\ pc /= "idle") => raised = "FileNotFoundError"
    /\ (pc = "raised" /\ content /= None /\ blocks = <<>> /\ results_log = StartedLog)
          => raised = "IOError"
    /\ PastLogWrite => output /= None
    /\ PastLogWrite => log_file /= None

AnalyzeReturned == fn_ret.done /\ fn_args.fn = "analyze"

\* C17: _analyze_results returns without raising for every log text, be it
\* unreadable, empty or holding any combination of markers, and the output
\* written before it ran stays as it was.
C17_AnalyzerNeverRaises ==
    /\ AnalyzeReturned => fn_ret.raised = ""
    /\ stats /= NoStats => stats.raises = "" /\ output = Join(enriched_blocks, "\n\n")

\* the analyzer has read the log of this batch
LogAnalysed == stats /= NoStats /\ stats.read

\* C18: each count the analyzer takes from the log of a batch is the number
\* of papers in which the event occurred, attempts are successes plus
\* failures, and the success rate is successes / attempts.
C18_CountsMatchEvents ==
    LogAnalysed =>
        /\ stats.doi_attempts = events.doi_attempts
        /\ stats.doi_successes = events.doi_successes
        /\ stats.doi_failures = events.doi_failures
        /\ stats.doi_attempts = stats.doi_successes + stats.doi_failures
        /\ stats.fallback_attempts = events.fallback_attempts
        /\ stats.fallback_successes = events.fallback_successes
        /\ stats.no_results = events.no_results
        /\ stats.needs_review = events.needs_review
        /\ stats.doi_attempts > 0 =>
              stats.doi_success_rate = Percent(events.doi_successes, events.doi_attempts)

\* resolution failed (HTTP 404 or an exception), then the first candidate gave nothing
\* and the second one gave an abstract and no authors
ResolutionFailedSecondCandidateAbstractOnly ==
    /\ PaperReturned
    /\ Len(calls) = 4
    /\ calls[1].op = "resolve" /\ ~calls[1].yielded
    /\ calls[2].op = "search" /\ calls[2].yielded
    /\ calls[3].op = "extract" /\ ~calls[3].yielded
    /\ calls[4].op = "extract" /\ calls[4].yielded
    /\ result.authors = "" /\ result.abstract /= ""

\* C19: when resolution fails and the second fallback candidate yields an
\* abstract only, the block has Source_Method GOOGLE_FALLBACK, no Authors
\* line, Webpage_Confidence 50%, the resolution failure still in errors and
\* Needs_Review True.
C19_FailedResolutionThenAbstractOnly ==
    ResolutionFailedSecondCandidateAbstractOnly =>
        /\ result.source_method = "GOOGLE_FALLBACK"
        /\ HasLine(block_ret, "Source_Method: GOOGLE_FALLBACK")
        /\ \A k \in DOMAIN LinesOf(block_ret) : ~StartsWith(LinesOf(block_ret)[k], "Authors:")
        /\ \A k \in DOMAIN LinesOf(block_ret) :
              ~StartsWith(LinesOf(block_ret)[k], "Author_Confidence:")
        /\ result.webpage_confidence = 50
        /\ HasLine(block_ret, "Webpage_Confidence: 50%")
        /\ \E e \in DOMAIN result.errors :
              StartsWith(result.errors[e], "DOI resolution failed: ")
        /\ \E k \in DOMAIN LinesOf(block_ret) :
              StartsWith(LinesOf(block_ret)[k], "Errors: DOI resolution failed: ")
        /\ result.needs_review
        /\ HasLine(block_ret, "Needs_Review: True")

\* the run of the example: HTTP 404, then two candidates
C19_Witness ==
    /\ ResolutionFailedSecondCandidateAbstractOnly
    /\ result.errors = <<"DOI resolution failed: DOI resolution failed: HTTP 404">>
    /\ result.webpage = calls[4].arg
    /\ HasLine(block_ret, "Needs_Review: True")

AuthoritativeYielded == PaperReturned /\ result.source_method = "DOI_DIRECT"

\* C20: a paper whose data comes from the DOI stage gets Webpage_Confidence
\* 95%, an empty error list and Needs_Review False, whichever of authors and
\* abstract was extracted and whatever the validation flags were.
C20_AuthoritativeNeedsNoReview ==
    AuthoritativeYielded =>
        /\ result.webpage_confidence = 95
        /\ HasLine(block_ret, "Webpage_Confidence: 95%")
        /\ result.errors = <<>>
        /\ \A k \in DOMAIN LinesOf(block_ret) : ~StartsWith(LinesOf(block_ret)[k], "Errors:")
        /\ ~result.needs_review
        /\ HasLine(block_ret, "Needs_Review: False")

\* the DOI page gave an abstract and no authors
C20_Witness ==
    /\ AuthoritativeYielded
    /\ result.authors = ""
    /\ result.abstract /= ""
    /\ HasLine(block_ret, "Needs_Review: False")

\* the lines an enriched block adds for result r, in the fixed order
AddedLines(r) ==
    (IF r.authors /= ""
     THEN <<"Authors: " \o r.authors,
            "Author_Confidence: " \o ToStr(r.author_confidence) \o "%">>
     ELSE <<>>)
    \o (IF r.abstract /= ""
        THEN <<"Abstract: " \o r.abstract,
               "Abstract_Confidence: " \o ToStr(r.abstract_confidence) \o "%">>
        ELSE <<>>)
    \o (IF r.webpage /= "" /\ r.webpage /= None
        THEN <<"Webpage: " \o r.webpage,
               "Webpage_Confidence: " \o ToStr(r.webpage_confidence) \o "%">>
        ELSE <<>>)
    \o <<"Source_Method: " \o r.source_method,
         "Needs_Review: " \o PyBool(r.needs_review)>>
    \o (IF r.errors /= <<>> THEN <<"Errors: " \o Join(r.errors, "; ")>> ELSE <<>>)

\* C21: the lines of an enriched block are the original lines followed by
\* the added lines in the order Authors, Author_Confidence, Abstract,
\* Abstract_Confidence, Webpage, Webpage_Confidence, Source_Method,
\* Needs_Review, Errors, a pair being there iff its field is non-empty,
\* Errors iff errors is non-empty, the other two always.
C21_AddedLinesInOrder ==
    TitledPaperReturned =>
        LinesOf(block_ret) = LinesOf(Strip(blocks[i + 1])) \o AddedLines(result)

\* the calculator's name for the stage that produced the data
StageMethod(r) == IF r.source_method = "DOI_DIRECT" THEN "doi_direct" ELSE "google_search"

\* C22: in both stages author_confidence comes from validating the authors
\* text as 'authors' and abstract_confidence from validating the abstract
\* text as 'abstract'; abstract_confidence does not depend on the authors.
C22_FlagsPerDataKind ==
    (PaperReturned /\ result.source_method \in {"DOI_DIRECT", "GOOGLE_FALLBACK"}) =>
        /\ result.author_confidence =
              calculate("authors", StageMethod(result),
                        ValidateTable[result.authors, title, "authors"])
        /\ result.abstract_confidence =
              calculate("abstract", StageMethod(result),
                        ValidateTable[result.abstract, title, "abstract"])

SearchReturned == fn_ret.done /\ fn_args.fn = "search"

\* C23: search never raises; a transport error, a non-success status or a
\* malformed response gives the empty list, and a JSON response gives one
\* {title, link, snippet} entry per item in the order of the response, an
\* absent items array giving the empty list.
C23_SearchTotal ==
    SearchReturned =>
        /\ fn_ret.raised = ""
        /\ IF fn_args.net.kind = "json"
           THEN /\ Len(fn_ret.value) = Len(fn_args.net.items)
                /\ \A k \in DOMAIN fn_ret.value :
                      /\ DOMAIN fn_ret.value[k] = {"title", "link", "snippet"}
                      /\ fn_ret.value[k].title = fn_args.net.items[k].title
                      /\ fn_ret.value[k].link = fn_args.net.items[k].link
                      /\ fn_ret.value[k].snippet = fn_args.net.items[k].snippet
           ELSE fn_ret.value = <<>>

\* a response of two items, the second without a title, came back whole
C23_Witness ==
    /\ SearchReturned
    /\ fn_args.net.kind = "json"
    /\ fn_args.net.items = <<ItemA, ItemNoTitle>>
    /\ fn_ret.value = <<ItemA, ItemNoTitle>>

ExtractReturned == fn_ret.done /\ fn_args.fn = "extract"

\* positions of the abstract elements whose stripped text has over 100 characters
LongTexts(els) == {k \in DOMAIN els : Len(Strip(els[k])) > 100}

\* C24: the abstract the extractor returns is empty or the text of the first
\* selector whose matched text is longer than 100 characters, unchanged up
\* to 500 characters and otherwise its first 500 characters followed by
\* '...', so a non-empty abstract has 101..503 characters; a fetch or parse
\* exception gives ('', '').
C24_AbstractBounds ==
    ExtractReturned =>
        LET abstract == fn_ret.value[1]
            els == fn_args.page.abstract_els
        IN  /\ fn_ret.raised = ""
            /\ (fn_args.url = None \/ fn_args.page.fetch /= "ok") => fn_ret.value = <<"", "">>
            /\ (fn_args.url /= None /\ fn_args.page.fetch = "ok") =>
                  IF LongTexts(els) = {}
                  THEN abstract = ""
                  ELSE LET first == CHOOSE a \in LongTexts(els) : \A b \in LongTexts(els) : a <= b
                           text == Strip(els[first])
                       IN  /\ Len(text) <= 500 => abstract = text
                           /\ Len(text) > 500 => abstract = SubSeq(text, 1, 500) \o "..."
            /\ abstract /= "" => Len(abstract) \in 101..503

\* a text of 653 characters was cut to 500 characters and the marker
C24_Witness ==
    /\ ExtractReturned
    /\ fn_args.page = Page650
    /\ fn_args.url /= None
    /\ Len(fn_ret.value[1]) = 503
    /\ SubSeq(fn_ret.value[1], 501, 503) = "..."

\* the log file has been written and enrich has gone on
LogFlushed == PastLogWrite /\ log_file /= None

\* C25: the log is flushed to the log file once, after the last entry of the
\* invocation: from the flush on, the file holds every entry of the log,
\* the first being the PROCESSING STARTED banner, and no entry is appended
\* after the flush.
C25_FlushAfterLastEntry ==
    LogFlushed =>
        /\ StartsWith(log_file, "PROCESSING STARTED: ")
        /\ log_file = Join(results_log, "\n")
====
